---- MODULE Spec2Model ----
(***************************************************************************)
(* Differential-expression pipeline of CSV_to_Actionable_Insights:         *)
(*   bin/preprocess_counts.py        (Count Normalizer)                    *)
(*   bin/differential_expression.py  (Differential Testing Engine, with    *)
(*                                    the Benjamini-Hochberg adjustment)   *)
(*                                                                         *)
(* Numbers are exact rationals [num, den] in lowest terms with den > 0.    *)
(* The IEEE not-a-number is the record with den = 0; every comparison with *)
(* it is false and every arithmetic operation on it gives it back, as in   *)
(* numpy.                                                                  *)
(***************************************************************************)
EXTENDS Integers, Sequences, FiniteSets

VARIABLES
    \* benjamini_hochberg called on its own: argument, result, position
    bh_p, bh_q, bh_pc,
    \* differential_expression.py main(): the two tables read, the position in
    \* main, the error raised (if any) and the samples its message lists
    counts, metadata, pc, error, missing,
    \* main()'s locals
    cond_a, cond_b, samples_a, samples_b, records, df,
    \* the table written by to_csv, and whether it was written
    out, emitted,
    \* how often benjamini_hochberg was entered and the n of the last call
    bh_calls, bh_n,
    \* preprocess_counts.py main(): the tables read (n_ann is NoFile without
    \* --annotations), the position, the error, and the table written
    n_counts, n_meta, n_ann, n_pc, n_error, n_missing, n_out

bhvars == <<bh_p, bh_q, bh_pc>>

envars == <<counts, metadata, pc, error, missing, cond_a, cond_b, samples_a,
            samples_b, records, df, out, emitted, bh_calls, bh_n>>

nvars == <<n_counts, n_meta, n_ann, n_pc, n_error, n_missing, n_out>>

vars == <<bhvars, envars, nvars>>

----------------------------------------------------------------------------
(* Bounds of the model *)

\* longest list of p-values handed to benjamini_hochberg on its own
MaxN == 3

\* most gene rows of a normalized matrix given to the engine
MaxGenes == 2

\* most rows of a raw count matrix given to the normalizer
MaxRows == 3

\* most rows of an annotation table
MaxAnn == 2

----------------------------------------------------------------------------
(* Exact arithmetic with NaN *)

NaN == [num |-> 0, den |-> 0]

IsNaN(x) == x.den = 0

Abs(n) == IF n < 0 THEN 0 - n ELSE n

RECURSIVE GCD(_, _)
GCD(a, b) == IF b = 0 THEN a ELSE GCD(b, a % b)

\* n / d in lowest terms; 0/0 and x/0 are not produced by the callers below
\* except as NaN
Frac(n, d) ==
    IF d = 0 THEN NaN
    ELSE LET g == GCD(Abs(n), Abs(d))
             s == IF d < 0 THEN 0 - 1 ELSE 1
         IN  [num |-> (s * n) \div g, den |-> (s * d) \div g]

Zero == Frac(0, 1)
One == Frac(1, 1)

FMul(x, y) == IF IsNaN(x) \/ IsNaN(y) THEN NaN ELSE Frac(x.num * y.num, x.den * y.den)

\* x / k for an integer k # 0
FDivInt(x, k) == IF IsNaN(x) THEN NaN ELSE Frac(x.num, x.den * k)

FSub(x, y) ==
    IF IsNaN(x) \/ IsNaN(y) THEN NaN
    ELSE Frac(x.num * y.den - y.num * x.den, x.den * y.den)

FNeg(x) == IF IsNaN(x) THEN NaN ELSE Frac(0 - x.num, x.den)

\* IEEE comparisons: false as soon as one side is NaN
FLt(x, y) == ~IsNaN(x) /\ ~IsNaN(y) /\ x.num * y.den < y.num * x.den
FLe(x, y) == ~IsNaN(x) /\ ~IsNaN(y) /\ x.num * y.den <= y.num * x.den
FEq(x, y) == ~IsNaN(x) /\ ~IsNaN(y) /\ x.num * y.den = y.num * x.den

\* numpy.minimum: propagates NaN
Minimum(x, y) == IF IsNaN(x) \/ IsNaN(y) THEN NaN ELSE IF FLe(x, y) THEN x ELSE y

\* numpy.clip(x, 0, 1): NaN stays NaN
Clip01(x) ==
    IF IsNaN(x) THEN NaN
    ELSE IF FLt(x, Zero) THEN Zero
    ELSE IF FLt(One, x) THEN One
    ELSE x

Reverse(s) == [k \in 1..Len(s) |-> s[Len(s) + 1 - k]]

----------------------------------------------------------------------------
(* benjamini_hochberg, differential_expression.py:10-22 *)

\* the order numpy sorts floats in: numbers ascending, NaN after every number
SortsBefore(x, y) == (~IsNaN(x) /\ IsNaN(y)) \/ FLt(x, y)

\* Every permutation numpy.argsort(p) may return.  The default kind is
\* "quicksort", which is not stable: the relative order of equal keys is
\* whatever the build's sorting routine leaves.
RECURSIVE ArgSortsOf(_, _)
ArgSortsOf(p, S) ==
    IF S = {} THEN {<<>>}
    ELSE LET least == {i \in S : \A j \in S : ~SortsBefore(p[j], p[i])}
         IN  UNION {{<<i>> \o rest : rest \in ArgSortsOf(p, S \ {i})} : i \in least}

ArgSorts(p) == ArgSortsOf(p, 1..Len(p))

\* ranks[order] = arange(1, n + 1)
RanksOf(order) == [i \in 1..Len(order) |-> CHOOSE k \in 1..Len(order) : order[k] = i]

CandidateNoRank(p, n, rank) == FMul(p, Frac(n, 1))

\* p_values * n / ranks, one element
Candidate(p, n, rank) == FDivInt(FMul(p, Frac(n, 1)), rank)

\* numpy.minimum.accumulate: running minimum from the first element on
MinimumAccumulate(s) ==
    LET acc[k \in 1..Len(s)] == IF k = 1 THEN s[1] ELSE Minimum(acc[k - 1], s[k])
    IN  [k \in 1..Len(s) |-> acc[k]]

NoStepUp(s) == s

\* np.minimum.accumulate(x[::-1])[::-1]
StepUp(s) == Reverse(MinimumAccumulate(Reverse(s)))

\* the whole function, for one of the orders argsort may return
benjamini_hochberg(p_values, order) ==
    LET n == Len(p_values)
        ranks == RanksOf(order)
        adjusted == [i \in 1..n |-> Candidate(p_values[i], n, ranks[i])]
        stepped == StepUp([k \in 1..n |-> adjusted[order[k]]])
        clipped == [k \in 1..n |-> Clip01(stepped[k])]
    IN  [i \in 1..n |-> clipped[ranks[i]]]

----------------------------------------------------------------------------
(* The adjustment on its own: inputs drawn from bounded lists *)

PVals == {Zero, Frac(1, 100), Frac(1, 4), Frac(1, 2), One, NaN}

\* Scenario 4 of the specification: 0.001, 0.002, ..., 0.01
Scenario4 == [k \in 1..10 |-> Frac(k, 1000)]

BHInputs == UNION {[1..n -> PVals] : n \in 0..MaxN} \cup {Scenario4}

IdleEngine ==
    /\ counts = [has_gene_id |-> TRUE, rows |-> <<>>]
    /\ metadata = [columns |-> {}, rows |-> <<>>]
    /\ pc = "idle"
    /\ error = "none"
    /\ missing = <<>>
    /\ cond_a = "none" /\ cond_b = "none"
    /\ samples_a = <<>> /\ samples_b = <<>>
    /\ records = <<>> /\ df = <<>>
    /\ out = <<>> /\ emitted = FALSE
    /\ bh_calls = 0 /\ bh_n = 0

IdleNorm ==
    /\ n_counts = [has_gene_id |-> TRUE, rows |-> <<>>]
    /\ n_meta = [columns |-> {}, sample_ids |-> <<>>]
    /\ n_ann = [columns |-> <<>>, rows |-> <<>>]
    /\ n_pc = "idle"
    /\ n_error = "none"
    /\ n_missing = <<>>
    /\ n_out = <<>>

InitBH ==
    /\ IdleEngine
    /\ IdleNorm
    /\ bh_p \in BHInputs
    /\ bh_q = <<>>
    /\ bh_pc = "ready"

ApplyBH ==
    /\ bh_pc = "ready"
    /\ \E order \in ArgSorts(bh_p) :
          bh_q' = benjamini_hochberg(bh_p, order)
    /\ bh_pc' = "done"
    /\ UNCHANGED <<bh_p, envars, nvars>>

NextBH == ApplyBH

SpecBH == InitBH /\ [][NextBH]_vars

----------------------------------------------------------------------------
(* Claims about the adjustment *)

\* every element is a number of the closed interval [0, 1]
AllInUnit(p) == \A i \in 1..Len(p) : FLe(Zero, p[i]) /\ FLe(p[i], One)

\* the least element of a non-empty set of numbers
LeastOf(S) == CHOOSE x \in S : \A y \in S : FLe(x, y)

\* min(1, min over the ranks j >= k of p_(j) * n / j), for one ranking
ClosedFormBH(p, order, k) ==
    LET n == Len(p)
        least == LeastOf({Frac(p[order[j]].num * n, p[order[j]].den * j) : j \in k..n})
    IN  IF FLe(least, One) THEN least ELSE One

\* C1: for every list of n >= 1 raw p-values in [0, 1] the value returned at a
\* gene's position is min(1, min over ranks j >= k of p_(j) * n / j), k being the
\* gene's rank under any ascending ranking (ties ranked either way); for the
\* ten values 0.001 .. 0.01 every adjusted value is 0.01.
C1_ClosedForm ==
    (bh_pc = "done" /\ Len(bh_p) >= 1 /\ AllInUnit(bh_p)) =>
        /\ Len(bh_q) = Len(bh_p)
        /\ \A order \in ArgSorts(bh_p) : \A k \in 1..Len(bh_p) :
              bh_q[order[k]] = ClosedFormBH(bh_p, order, k)
        /\ (bh_p = Scenario4 => \A i \in 1..10 : bh_q[i] = Frac(1, 100))

\* a list in [0, 1] was adjusted and some gene's value comes from a higher rank:
\* it is strictly below its own p * n / k
C1_Witness ==
    /\ bh_pc = "done" /\ Len(bh_p) >= 3 /\ AllInUnit(bh_p)
    /\ \E order \in ArgSorts(bh_p) : \E k \in 1..Len(bh_p) :
          FLt(bh_q[order[k]], Candidate(bh_p[order[k]], Len(bh_p), k))

\* C2: the adjusted values are monotone in the raw ones: for any two genes with
\* raw p_i <= p_j the adjusted values satisfy q_i <= q_j.
C2_Monotone ==
    (bh_pc = "done" /\ AllInUnit(bh_p)) =>
        \A i, j \in 1..Len(bh_p) :
            FLe(bh_p[i], bh_p[j]) => FLe(bh_q[i], bh_q[j])

\* two genes with different raw values were adjusted to the same value, and two
\* others kept their strict order
C2_Witness ==
    /\ bh_pc = "done" /\ AllInUnit(bh_p)
    /\ \E i, j \in 1..Len(bh_p) :
          FLt(bh_p[i], bh_p[j]) /\ FEq(bh_q[i], bh_q[j])
    /\ \E i, j \in 1..Len(bh_p) :
          FLt(bh_p[i], bh_p[j]) /\ FLt(bh_q[i], bh_q[j])

----------------------------------------------------------------------------
(* Differential Testing Engine, differential_expression.py:25-89 *)

RECURSIVE SumSeq(_)
SumSeq(s) == IF s = <<>> THEN 0 ELSE s[1] + SumSeq(Tail(s))

\* Series.unique(): the distinct values in order of first appearance
RECURSIVE Unique(_)
Unique(s) ==
    IF s = <<>> THEN <<>>
    ELSE LET front == Unique(SubSeq(s, 1, Len(s) - 1))
             last == s[Len(s)]
         IN  IF \E k \in 1..Len(front) : front[k] = last THEN front
             ELSE Append(front, last)

\* numpy mean of a non-empty array
Mean(vals) == Frac(SumSeq(vals), Len(vals))

\* Two-sided tail of Student's t at t^2 with df degrees of freedom.  The only
\* finite non-zero statistic the matrices below produce is |t| = 1 with
\* df = 1, where 2 * sf(1) = 2 * (1/2 - atan(1)/pi) = 1/2.
StudentTwoSided(t2, dof) ==
    CASE t2 = One /\ dof = One -> Frac(1, 2)

\* scipy.stats.ttest_ind(a, b, equal_var=False).pvalue
\*   v = var(ddof=1) is 0/0 for a single observation
\*   vn = v / n; df = (vn1 + vn2)^2 / (vn1^2/(n1-1) + vn2^2/(n2-1)), 1 if 0/0
\*   t = (mean1 - mean2) / sqrt(vn1 + vn2): 0/0 is NaN, x/0 is +-inf
ttest_ind(a_vals, b_vals) ==
    LET n1 == Len(a_vals)
        n2 == Len(b_vals)
        s1 == SumSeq(a_vals)
        s2 == SumSeq(b_vals)
        \* n * sum of squares - (sum)^2 = n (n - 1) v
        w1 == n1 * SumSeq([k \in 1..n1 |-> a_vals[k] * a_vals[k]]) - s1 * s1
        w2 == n2 * SumSeq([k \in 1..n2 |-> b_vals[k] * b_vals[k]]) - s2 * s2
        d == FSub(Frac(s1, n1), Frac(s2, n2))
    IN  IF n1 < 2 \/ n2 < 2 THEN NaN
        ELSE LET vn1 == Frac(w1, n1 * n1 * (n1 - 1))
                 vn2 == Frac(w2, n2 * n2 * (n2 - 1))
                 vsum == Frac(vn1.num * vn2.den + vn2.num * vn1.den, vn1.den * vn2.den)
             IN  IF vsum = Zero THEN (IF d = Zero THEN NaN ELSE Zero)
                 ELSE IF d = Zero THEN One
                 ELSE LET t2 == Frac(d.num * d.num * vsum.den, d.den * d.den * vsum.num)
                          q1 == FDivInt(FMul(vn1, vn1), n1 - 1)
                          q2 == FDivInt(FMul(vn2, vn2), n2 - 1)
                          qsum == Frac(q1.num * q2.den + q2.num * q1.den, q1.den * q2.den)
                          v2 == FMul(vsum, vsum)
                          dof == Frac(v2.num * qsum.den, v2.den * qsum.num)
                      IN  StudentTwoSided(t2, dof)

\* the sample columns of the normalized matrix
Samples == {"S1", "S2", "S3", "S4"}

\* counts.columns
ColumnsOf(c) == (IF c.has_gene_id THEN {"gene_id"} ELSE {}) \cup Samples

\* metadata.loc[metadata["condition"] == cond, "sample_id"].tolist()
SamplesOf(rows, cond) ==
    LET Is(r) == r.condition = cond
        sel == SelectSeq(rows, Is)
    IN  [k \in 1..Len(sel) |-> sel[k].sample_id]

\* [s for s in samples if s not in counts.columns]
MissingOf(samples, c) ==
    LET Absent(x) == x \notin ColumnsOf(c)
    IN  SelectSeq(samples, Absent)

MissingFirstGroupOnly(missing_a, missing_b) == missing_a

\* missing = missing_a + missing_b
MissingList(missing_a, missing_b) == missing_a \o missing_b

DesignNeedsAtLeastTwo(conditions) == Len(conditions) >= 2

\* not (len(conditions) != 2)
DesignOK(conditions) == Len(conditions) = 2

LogFcMagnitude(mean_a, mean_b) ==
    IF FLt(mean_a, mean_b) THEN FSub(mean_b, mean_a) ELSE FSub(mean_a, mean_b)

\* log2_fc = mean_a - mean_b
Log2Fc(mean_a, mean_b) == FSub(mean_a, mean_b)

\* the body of the per-gene loop: one record of the result
GeneRecord(gene, row, sa, sb) ==
    LET a_vals == [k \in 1..Len(sa) |-> row[sa[k]]]
        b_vals == [k \in 1..Len(sb) |-> row[sb[k]]]
        mean_a == Mean(a_vals)
        mean_b == Mean(b_vals)
    IN  [gene_id |-> gene, mean_a |-> mean_a, mean_b |-> mean_b,
         log2_fc |-> Log2Fc(mean_a, mean_b),
         p_value |-> ttest_ind(a_vals, b_vals)]

LoopEndsAfterFirst(done, total) == done >= 1 \/ total = 0

\* the for loop over group_a.iterrows() is exhausted
LoopDone(done, total) == done = total

\* df["p_adj"] = benjamini_hochberg(df["p_value"].values)
WithPAdj(recs, q) ==
    [k \in 1..Len(recs) |->
        [gene_id |-> recs[k].gene_id, mean_a |-> recs[k].mean_a,
         mean_b |-> recs[k].mean_b, log2_fc |-> recs[k].log2_fc,
         p_value |-> recs[k].p_value, p_adj |-> q[k]]]

\* Every row order df.sort_values("p_value") may leave: pandas argsorts the
\* non-NaN keys with kind="quicksort" (not stable, so equal keys come in any
\* order) and puts the NaN rows after them in their original order.
SortValues(table) ==
    LET keys == [k \in 1..Len(table) |-> table[k].p_value]
        nans == {k \in 1..Len(table) : IsNaN(keys[k])}
        IsNanIdx(k) == k \in nans
        nan_idx == SelectSeq([k \in 1..Len(table) |-> k], IsNanIdx)
    IN  {[k \in 1..Len(table) |-> table[(ord \o nan_idx)[k]]] :
            ord \in ArgSortsOf(keys, (1..Len(table)) \ nans)}

\* Inputs.  A gene row gives one value per sample column; the gene_id of the
\* k-th row is k.  A metadata row names a sample and its condition; the samples
\* S8 and S9 are no columns of the matrix.
RowSet ==
    {[S1 |-> 1, S2 |-> 1, S3 |-> 1, S4 |-> 1],
     [S1 |-> 0, S2 |-> 0, S3 |-> 1, S4 |-> 1],
     [S1 |-> 0, S2 |-> 1, S3 |-> 0, S4 |-> 0]}

Conds == {"ctl", "trt", "oth"}

MetaSampleChoices == <<{"S1"}, {"S2", "S8"}, {"S3"}, {"S4", "S9"}>>

MetaRowsSet ==
    {m \in [1..4 -> [sample_id : {"S1", "S2", "S3", "S4", "S8", "S9"}, condition : Conds]] :
        \A k \in 1..4 : m[k].sample_id \in MetaSampleChoices[k]}

CountsSet ==
    [has_gene_id : BOOLEAN, rows : UNION {[1..n -> RowSet] : n \in 0..MaxGenes}]

MetadataSet ==
    [columns : SUBSET {"sample_id", "condition"}, rows : MetaRowsSet]

IdleBH == bh_p = <<>> /\ bh_q = <<>> /\ bh_pc = "idle"

Init ==
    /\ IdleBH
    /\ IdleNorm
    /\ counts \in CountsSet
    /\ metadata \in MetadataSet
    /\ pc = "start"
    /\ error = "none"
    /\ missing = <<>>
    /\ cond_a = "none" /\ cond_b = "none"
    /\ samples_a = <<>> /\ samples_b = <<>>
    /\ records = <<>> /\ df = <<>>
    /\ out = <<>> /\ emitted = FALSE
    /\ bh_calls = 0 /\ bh_n = 0

Fail(kind, listed) ==
    /\ UNCHANGED nvars
    /\ pc' = "failed"
    /\ error' = kind
    /\ missing' = listed
    /\ UNCHANGED <<counts, metadata, cond_a, cond_b, samples_a, samples_b,
                   records, df, out, emitted, bh_calls, bh_n>>

\* Lines 39-60.  Every failure is a ValueError in the source; error holds the
\* name the specification gives to the failure with that message.
Validate ==
    /\ pc = "start"
    /\ UNCHANGED bhvars
    /\ IF "gene_id" \notin ColumnsOf(counts) THEN Fail("SchemaError", <<>>)
       ELSE IF ~({"sample_id", "condition"} \subseteq metadata.columns)
       THEN Fail("SchemaError", <<>>)
       ELSE LET conditions ==
                    Unique([k \in 1..Len(metadata.rows) |-> metadata.rows[k].condition])
            IN  IF ~DesignOK(conditions) THEN Fail("UnsupportedDesignError", <<>>)
                ELSE LET sa == SamplesOf(metadata.rows, conditions[1])
                         sb == SamplesOf(metadata.rows, conditions[2])
                         missing_a == MissingOf(sa, counts)
                         missing_b == MissingOf(sb, counts)
                     IN  IF missing_a # <<>> \/ missing_b # <<>>
                         THEN Fail("MissingSamplesError", MissingList(missing_a, missing_b))
                         ELSE /\ pc' = "loop"
                              /\ cond_a' = conditions[1]
                              /\ cond_b' = conditions[2]
                              /\ samples_a' = sa
                              /\ samples_b' = sb
                              /\ UNCHANGED <<counts, metadata, error, missing, records,
                                             df, out, emitted, bh_calls, bh_n, nvars>>

\* Lines 63-82: one iteration of the loop over the gene rows
TestGene ==
    /\ pc = "loop"
    /\ ~LoopDone(Len(records), Len(counts.rows))
    /\ LET k == Len(records) + 1
       IN  records' = Append(records, GeneRecord(k, counts.rows[k], samples_a, samples_b))
    /\ UNCHANGED <<bhvars, nvars, counts, metadata, pc, error, missing, cond_a,
                   cond_b, samples_a, samples_b, df, out, emitted, bh_calls, bh_n>>

\* Lines 84-85.  DataFrame.from_records([]) has no columns at all, so
\* df["p_value"] raises KeyError before benjamini_hochberg is entered.
Adjust ==
    /\ pc = "loop"
    /\ LoopDone(Len(records), Len(counts.rows))
    /\ UNCHANGED bhvars
    /\ IF records = <<>> THEN Fail("KeyError", <<>>)
       ELSE LET p_values == [k \in 1..Len(records) |-> records[k].p_value]
            IN  /\ \E order \in ArgSorts(p_values) :
                      df' = WithPAdj(records, benjamini_hochberg(p_values, order))
                /\ bh_calls' = bh_calls + 1
                /\ bh_n' = Len(p_values)
                /\ pc' = "adjusted"
                /\ UNCHANGED <<counts, metadata, error, missing, cond_a, cond_b,
                               samples_a, samples_b, records, out, emitted, nvars>>

\* Lines 86-89: sort_values and to_csv
SortEmit ==
    /\ pc = "adjusted"
    /\ \E sorted \in SortValues(df) :
          /\ df' = sorted
          /\ out' = sorted
    /\ emitted' = TRUE
    /\ pc' = "done"
    /\ UNCHANGED <<bhvars, nvars, counts, metadata, error, missing, cond_a, cond_b,
                   samples_a, samples_b, records, bh_calls, bh_n>>

Next == Validate \/ TestGene \/ Adjust \/ SortEmit

Spec == Init /\ [][Next]_vars

----------------------------------------------------------------------------
(* Claims about the engine *)

\* what the inputs are, said without the engine's own helpers
InputSchemaOK ==
    counts.has_gene_id /\ metadata.columns = {"sample_id", "condition"}

ConditionSet == {metadata.rows[k].condition : k \in 1..Len(metadata.rows)}

ReferencedAbsent == {metadata.rows[k].sample_id : k \in 1..Len(metadata.rows)} \ Samples

InputPassesValidation ==
    InputSchemaOK /\ Cardinality(ConditionSet) = 2 /\ ReferencedAbsent = {}

\* the samples of one condition, as a set
GroupOf(cond) ==
    {metadata.rows[k].sample_id : k \in {j \in 1..Len(metadata.rows) :
                                            metadata.rows[j].condition = cond}}

RECURSIVE SumOver(_, _)
SumOver(row, S) ==
    IF S = {} THEN 0
    ELSE LET x == CHOOSE y \in S : TRUE IN row[x] + SumOver(row, S \ {x})

MeanOver(row, S) == Frac(SumOver(row, S), Cardinality(S))

\* zero variance in both groups and the same value in both
Degenerate(row) ==
    \A x, y \in GroupOf(cond_a) \cup GroupOf(cond_b) : row[x] = row[y]

\* the record of gene k in a table
RowOfGene(table, k) == CHOOSE r \in {table[j] : j \in 1..Len(table)} : r.gene_id = k

\* C3 (as stated): a gene whose two groups have zero variance and the same
\* value gets p_value = 1.0, no record of the table carries a NaN p_value or
\* p_adj because of it, and the run does not fail.
C3_DegenerateIsOne ==
    (/\ pc \in {"loop", "adjusted", "done", "failed"}
     /\ Cardinality(GroupOf(cond_a)) >= 2 /\ Cardinality(GroupOf(cond_b)) >= 2
     /\ \E k \in 1..Len(counts.rows) : Degenerate(counts.rows[k])) =>
        /\ pc # "failed"
        /\ \A k \in 1..Len(records) :
              Degenerate(counts.rows[k]) => records[k].p_value = One
        /\ \A k \in 1..Len(df) : ~IsNaN(df[k].p_value) /\ ~IsNaN(df[k].p_adj)

\* C4 (as stated): with zero gene rows and metadata that passes validation the
\* run raises no error and emits an empty table.
C4_EmptyGeneSetEmits ==
    (InputPassesValidation /\ counts.rows = <<>>) =>
        /\ error = "none"
        /\ (pc = "done" => emitted /\ out = <<>>)

\* C5 (as stated): the emitted table is ascending in raw p_value (pandas puts
\* NaN keys last), and genes with exactly equal p_value keep the order of their
\* rows in the input matrix.
C5_StableAscending ==
    emitted =>
        \A i, j \in 1..Len(out) :
            i < j =>
                /\ ~FLt(out[j].p_value, out[i].p_value)
                /\ (out[i].p_value = out[j].p_value => out[i].gene_id < out[j].gene_id)

\* C6: with well-formed tables and a two-condition design, a metadata that
\* references samples that are no columns of the matrix makes the run fail with
\* the missing-samples error, whose message lists every absent sample of both
\* groups exactly once; no gene was tested and nothing is emitted.
C6_MissingSamples ==
    (/\ pc # "start"
     /\ InputSchemaOK
     /\ Cardinality(ConditionSet) = 2
     /\ ReferencedAbsent # {}) =>
        /\ pc = "failed"
        /\ error = "MissingSamplesError"
        /\ {missing[k] : k \in 1..Len(missing)} = ReferencedAbsent
        /\ Len(missing) = Cardinality(ReferencedAbsent)
        /\ records = <<>> /\ df = <<>> /\ ~emitted /\ bh_calls = 0

\* the run failed listing two absent samples, one of each condition group
C6_Witness ==
    /\ pc = "failed" /\ error = "MissingSamplesError"
    /\ Len(missing) = 2
    /\ \E c, d \in ConditionSet :
          c # d /\ missing[1] \in GroupOf(c) /\ missing[2] \in GroupOf(d)

\* C7: with well-formed tables, a condition column that does not hold exactly
\* two distinct values makes the run fail with the unsupported-design error
\* before any gene is tested, and nothing is emitted.
C7_UnsupportedDesign ==
    (/\ pc # "start"
     /\ InputSchemaOK
     /\ Cardinality(ConditionSet) # 2) =>
        /\ pc = "failed"
        /\ error = "UnsupportedDesignError"
        /\ records = <<>> /\ df = <<>> /\ ~emitted /\ bh_calls = 0

\* the run failed on a metadata with three condition labels
C7_Witness ==
    /\ pc = "failed" /\ error = "UnsupportedDesignError"
    /\ Cardinality(ConditionSet) = 3
    /\ Len(counts.rows) >= 1

\* the same metadata rows in another order that starts with the other
\* condition: the rotations of the rows and of the rows read backwards
SwappedMetadata(rows) ==
    LET n == Len(rows)
        Rotated(m, d) == [k \in 1..n |-> m[((k + d - 1) % n) + 1]]
    IN  {m \in {Rotated(rows, d) : d \in 0..(n - 1)} \cup
                {Rotated(Reverse(rows), d) : d \in 0..(n - 1)} :
            m[1].condition # rows[1].condition}

\* C8: A is the condition that appears first in the metadata and log2_fc is
\* mean_A - mean_B; running the engine on the same matrix with the metadata
\* reordered so that the other condition appears first negates every gene's
\* log2_fc and leaves every gene's p_value and p_adj as they are.
C8_SwapSymmetry ==
    pc \in {"adjusted", "done"} =>
        /\ cond_a = metadata.rows[1].condition
        /\ \A k \in 1..Len(counts.rows) :
              LET r == RowOfGene(df, k)
              IN  /\ r.mean_a = MeanOver(counts.rows[k], GroupOf(cond_a))
                  /\ r.mean_b = MeanOver(counts.rows[k], GroupOf(cond_b))
                  /\ r.log2_fc = FSub(r.mean_a, r.mean_b)
        /\ \A rows2 \in SwappedMetadata(metadata.rows) :
              LET conds2 == Unique([k \in 1..Len(rows2) |-> rows2[k].condition])
                  sa2 == SamplesOf(rows2, conds2[1])
                  sb2 == SamplesOf(rows2, conds2[2])
                  recs2 == [k \in 1..Len(counts.rows) |->
                               GeneRecord(k, counts.rows[k], sa2, sb2)]
                  p2 == [k \in 1..Len(recs2) |-> recs2[k].p_value]
              IN  /\ conds2 = <<cond_b, cond_a>>
                  /\ \A order2 \in ArgSorts(p2) :
                        LET q2 == benjamini_hochberg(p2, order2)
                        IN  \A k \in 1..Len(counts.rows) :
                               LET r == RowOfGene(df, k)
                               IN  /\ recs2[k].log2_fc = FNeg(r.log2_fc)
                                   /\ recs2[k].p_value = r.p_value
                                   /\ q2[k] = r.p_adj

\* a table was emitted in which one gene is up in A and another is down, both
\* with a p_value that is a number
C8_Witness ==
    /\ pc = "done"
    /\ \E i, j \in 1..Len(out) :
          /\ FLt(Zero, out[i].log2_fc) /\ ~IsNaN(out[i].p_value)
          /\ FLt(out[j].log2_fc, Zero) /\ ~IsNaN(out[j].p_adj)

\* C10: the adjustment is entered at most once in a run, only when every gene
\* of the matrix has its record with its raw p_value, and with n equal to the
\* number of genes of the matrix; every run that emits a table entered it
\* exactly once.
C10_GlobalBarrier ==
    /\ bh_calls <= 1
    /\ bh_calls = 1 =>
          /\ Len(records) = Len(counts.rows)
          /\ bh_n = Len(counts.rows)
          /\ Len(df) = Len(counts.rows)
    /\ pc \in {"start", "loop"} => bh_calls = 0 /\ df = <<>>
    /\ emitted => bh_calls = 1 /\ Len(out) = Len(counts.rows)

\* a run over a matrix of several genes has emitted its table, with adjusted
\* values that are numbers
C10_Witness ==
    /\ pc = "done" /\ emitted
    /\ Len(counts.rows) >= 2
    /\ bh_calls = 1 /\ bh_n = Len(counts.rows)
    /\ \A k \in 1..Len(out) : ~IsNaN(out[k].p_adj)

----------------------------------------------------------------------------
(* Count Normalizer, preprocess_counts.py:9-77 *)

\* a missing cell (pandas NaN) of a text column
Null == "<NA>"

\* no --annotations argument
NoFile == [columns |-> <<>>, rows |-> <<>>]

\* c.lower().replace(" ", "_") on the column names used below
LowerUnderscore(c) ==
    CASE c = "Gene ID" -> "gene_id"
      [] c = "ID" -> "id"
      [] c = "Symbol" -> "symbol"
      [] c = "gene_name" -> "gene_name"
      [] c = "chrom" -> "chrom"

IdAliases == {"gene_id", "geneid", "id"}

SymbolAliases == {"gene_symbol", "symbol", "associated_gene_name", "gene_name"}

DropDuplicatesLast(rows, key) ==
    LET keep == {k \in 1..Len(rows) :
                    \A j \in (k + 1)..Len(rows) : rows[j][key] # rows[k][key]}
        idx == SelectSeq([k \in 1..Len(rows) |-> k], LAMBDA k : k \in keep)
    IN  [j \in 1..Len(idx) |-> rows[idx[j]]]

\* DataFrame.drop_duplicates(key): of the rows with the same key the first stays
DropDuplicates(rows, key) ==
    LET keep == {k \in 1..Len(rows) :
                    \A j \in 1..(k - 1) : rows[j][key] # rows[k][key]}
        idx == SelectSeq([k \in 1..Len(rows) |-> k], LAMBDA k : k \in keep)
    IN  [j \in 1..Len(idx) |-> rows[idx[j]]]

\* ann[[id_col, sym_col]].rename(...).dropna(subset=["gene_symbol"])
\*    .drop_duplicates("gene_id"): the rows of the identifier-to-symbol map
AnnMapRows(ann, id_col, sym_col) ==
    LET renamed == [k \in 1..Len(ann.rows) |->
                       [gene_id |-> ann.rows[k][id_col],
                        gene_symbol |-> ann.rows[k][sym_col]]]
        HasSymbol(r) == r.gene_symbol # Null
    IN  DropDuplicates(SelectSeq(renamed, HasSymbol), "gene_id")

\* counts["gene_id"].map(ann_map): the symbol, NaN for an identifier not mapped
MapSymbol(map_rows, gene) ==
    IF \E k \in 1..Len(map_rows) : map_rows[k].gene_id = gene
    THEN (CHOOSE r \in {map_rows[k] : k \in 1..Len(map_rows)} : r.gene_id = gene).gene_symbol
    ELSE Null

\* counts["gene_symbol"].fillna(counts["gene_id"]), one row
PreferSymbol(symbol, gene) == IF symbol = Null THEN gene ELSE symbol

\* lines 40-63: the count rows after the optional remap
Remap(rows, ann) ==
    LET id_cols == SelectSeq(ann.columns, LAMBDA c : LowerUnderscore(c) \in IdAliases)
        sym_cols == SelectSeq(ann.columns, LAMBDA c : LowerUnderscore(c) \in SymbolAliases)
    IN  IF ann = NoFile \/ id_cols = <<>> \/ sym_cols = <<>> THEN rows
        ELSE LET map_rows == AnnMapRows(ann, id_cols[1], sym_cols[1])
                 relabeled == [k \in 1..Len(rows) |->
                                  [gene_id |-> PreferSymbol(MapSymbol(map_rows, rows[k].gene_id),
                                                            rows[k].gene_id),
                                   vals |-> rows[k].vals]]
             IN  DropDuplicates(relabeled, "gene_id")

\* the sample columns of the raw count matrix
NSamples == {"S1", "S2"}

\* log2_cpm, one cell: log2(count / column total * 1000000 + 1).  The cell is
\* kept as the count and the column total that determine it.
Log2Cpm(count, total) == [count |-> count, total |-> total]

\* lines 71-75: the matrix restricted to sample_ids, transformed
Normalized(rows, sample_ids) ==
    LET total(s) == SumSeq([k \in 1..Len(rows) |-> rows[k].vals[s]])
    IN  [k \in 1..Len(rows) |->
            [gene_id |-> rows[k].gene_id,
             cells |-> [j \in 1..Len(sample_ids) |->
                           Log2Cpm(rows[k].vals[sample_ids[j]], total(sample_ids[j]))]]]

\* Inputs.  The k-th raw row has count k in S1 and 1 in S2, so a row of the
\* output tells which input row it came from.
GeneIds == {"ENSG1", "ENSG2", "BRCA1"}

RowCounts(k) == [S1 |-> k, S2 |-> 1]

NCountsSet ==
    {[has_gene_id |-> b,
      rows |-> [k \in 1..Len(ids) |-> [gene_id |-> ids[k], vals |-> RowCounts(k)]]] :
        b \in BOOLEAN, ids \in UNION {[1..n -> GeneIds] : n \in 0..MaxRows}}

NMetaSet ==
    {[columns |-> {"sample_id", "condition"}, sample_ids |-> <<"S2", "S1">>],
     [columns |-> {"sample_id", "condition"}, sample_ids |-> <<"S9", "S1", "S8">>],
     [columns |-> {"sample_id"}, sample_ids |-> <<"S1", "S2">>]}

AnnLayouts == {<<"Gene ID", "Symbol">>, <<"gene_name", "ID">>, <<"Gene ID", "chrom">>}

AnnCellValues(c) ==
    IF LowerUnderscore(c) \in IdAliases THEN {"ENSG1", "ENSG2"}
    ELSE IF LowerUnderscore(c) \in SymbolAliases THEN {"BRCA1", "TP53", Null}
    ELSE {"17"}

AnnRowsOf(layout) ==
    {r \in [{layout[1], layout[2]} -> {"ENSG1", "ENSG2", "BRCA1", "TP53", Null, "17"}] :
        \A c \in DOMAIN r : r[c] \in AnnCellValues(c)}

NAnnSet ==
    {NoFile} \cup
    UNION {{[columns |-> layout, rows |-> rows] :
               rows \in UNION {[1..n -> AnnRowsOf(layout)] : n \in 0..MaxAnn}} :
           layout \in AnnLayouts}

InitNorm ==
    /\ IdleBH
    /\ IdleEngine
    /\ n_counts \in NCountsSet
    /\ n_meta \in NMetaSet
    /\ n_ann \in NAnnSet
    /\ n_pc = "start"
    /\ n_error = "none"
    /\ n_missing = <<>>
    /\ n_out = <<>>

NFail(kind, listed) ==
    /\ n_pc' = "failed"
    /\ n_error' = kind
    /\ n_missing' = listed
    /\ UNCHANGED n_out

\* main(), lines 32-77.  Every failure is a ValueError in the source.
Normalize ==
    /\ n_pc = "start"
    /\ UNCHANGED <<bhvars, envars, n_counts, n_meta, n_ann>>
    /\ IF ~n_counts.has_gene_id THEN NFail("SchemaError", <<>>)
       ELSE IF ~({"sample_id", "condition"} \subseteq n_meta.columns)
       THEN NFail("SchemaError", <<>>)
       ELSE LET rows == Remap(n_counts.rows, n_ann)
                absent == SelectSeq(n_meta.sample_ids,
                                    LAMBDA x : x \notin ({"gene_id"} \cup NSamples))
            IN  IF absent # <<>> THEN NFail("MissingSamplesError", absent)
                ELSE /\ n_out' = Normalized(rows, n_meta.sample_ids)
                     /\ n_pc' = "done"
                     /\ UNCHANGED <<n_error, n_missing>>

NextNorm == Normalize

SpecNorm == InitNorm /\ [][NextNorm]_vars

----------------------------------------------------------------------------
(* Claim about the normalizer *)

\* a mapping is detected: a file was given and it has an identifier column and
\* a symbol column
MappingDetected ==
    /\ n_ann # NoFile
    /\ \E k \in 1..Len(n_ann.columns) : LowerUnderscore(n_ann.columns[k]) \in IdAliases
    /\ \E k \in 1..Len(n_ann.columns) : LowerUnderscore(n_ann.columns[k]) \in SymbolAliases

FirstIdColumn ==
    n_ann.columns[CHOOSE k \in 1..Len(n_ann.columns) :
        /\ LowerUnderscore(n_ann.columns[k]) \in IdAliases
        /\ \A j \in 1..(k - 1) : LowerUnderscore(n_ann.columns[j]) \notin IdAliases]

FirstSymbolColumn ==
    n_ann.columns[CHOOSE k \in 1..Len(n_ann.columns) :
        /\ LowerUnderscore(n_ann.columns[k]) \in SymbolAliases
        /\ \A j \in 1..(k - 1) : LowerUnderscore(n_ann.columns[j]) \notin SymbolAliases]

\* the annotation rows that give gene a symbol
SymbolRowsOf(gene) ==
    {k \in 1..Len(n_ann.rows) :
        n_ann.rows[k][FirstIdColumn] = gene /\ n_ann.rows[k][FirstSymbolColumn] # Null}

\* the label of a count row: the symbol of the first annotation row that gives
\* its identifier one, its own identifier if there is none
LabelOf(gene) ==
    IF SymbolRowsOf(gene) = {} THEN gene
    ELSE n_ann.rows[CHOOSE k \in SymbolRowsOf(gene) :
                        \A j \in SymbolRowsOf(gene) : k <= j][FirstSymbolColumn]

\* the first count row that carries a label
FirstRowOf(label) ==
    CHOOSE k \in 1..Len(n_counts.rows) :
        /\ LabelOf(n_counts.rows[k].gene_id) = label
        /\ \A j \in 1..(k - 1) : LabelOf(n_counts.rows[j].gene_id) # label

\* C9: when an annotation mapping is detected, every count row is relabeled to
\* its mapped symbol, or keeps its identifier if it has none; the output holds
\* exactly one row per distinct label, and that row is the first count row, in
\* the order of the count matrix, that carries the label.
C9_RemapKeepsFirst ==
    (n_pc = "done" /\ MappingDetected) =>
        LET labels == {LabelOf(n_counts.rows[k].gene_id) : k \in 1..Len(n_counts.rows)}
        IN  /\ {n_out[j].gene_id : j \in 1..Len(n_out)} = labels
            /\ Len(n_out) = Cardinality(labels)
            /\ \A j \in 1..Len(n_out) :
                  \A c \in 1..Len(n_meta.sample_ids) :
                      n_out[j].cells[c].count =
                          n_counts.rows[FirstRowOf(n_out[j].gene_id)].vals[n_meta.sample_ids[c]]
            /\ \A i, j \in 1..Len(n_out) :
                  i < j => FirstRowOf(n_out[i].gene_id) < FirstRowOf(n_out[j].gene_id)

\* Scenario 5 with a collision: ENSG1 is mapped to BRCA1, the output has a row
\* BRCA1 and none ENSG1, and a later row with the same label was dropped
C9_Witness ==
    /\ n_pc = "done" /\ MappingDetected
    /\ \E k \in 1..Len(n_counts.rows) : n_counts.rows[k].gene_id = "ENSG1"
    /\ LabelOf("ENSG1") = "BRCA1"
    /\ \E j \in 1..Len(n_out) : n_out[j].gene_id = "BRCA1"
    /\ \A j \in 1..Len(n_out) : n_out[j].gene_id # "ENSG1"
    /\ Len(n_out) < Len(n_counts.rows)

====
